---- MODULE Spec2Model ----
(***************************************************************************)
(* State-machine model of the LLM-as-a-judge of the information-search     *)
(* lab: the LLMJudge of llm.py with its disk cache, and the two remote     *)
(* clients gemini_client.call_gemini and groq_client.call_groq.            *)
(*                                                                         *)
(* Time is counted in whole seconds.  A remote request is instantaneous;   *)
(* only time.sleep and the Tick action move the clock.  The SHA-256 cache  *)
(* key is modelled collision-free, as the tuple of the hashed fields.      *)
(* Values stored in a cache file are JSON integers.  A failing cache write *)
(* is raised by mkdir or by opening the file and leaves the file as it was.*)
(***************************************************************************)
EXTENDS Integers, Sequences, FiniteSets, TLC

VARIABLES
    cfgBackend,     \* LLMJudgeConfig.backend after __init__ (env override applied)
    constructed,    \* "ok" once LLMJudge.__init__ returned, "TypeError" when it raised
    cache,          \* LLMJudge._cache: [kind, m]
    disk,           \* the file at config.cache_path: [kind, m]
    loggedBackend,  \* LLMJudge._logged_backend
    loggedCache,    \* LLMJudge._logged_cache
    env,            \* the process environment read by call_gemini
    now,            \* time.perf_counter()
    lastCallTime,   \* gemini_client._last_call_time (NoTime = None)
    prevRemoteEnd,  \* history: when the last call_gemini that sent a request ended
    last,           \* history: what the last LLMJudge.score call did
    rc,             \* history: what the last call_gemini / call_groq did
    arg,            \* the arguments of a function applied on its own
    result,         \* what it returned, NoResult before the call
    models,         \* models_dict: the model names in registration order
    topK,           \* top_k
    pc,             \* where evaluate_models stands
    judged,         \* history: the doc ids judge.score was called with, in order
    relMap,         \* rel_map
    searched,       \* history: the models whose search was called, in order
    ranked,         \* ranked_docs of the last search: its doc ids
    ndcgs,          \* ndcgs
    queries,        \* benchmark: queries
    modelsDict,     \* benchmark: models_dict, the model names in registration order
    outputPath,     \* benchmark: output_path, NoPath for None
    bpc,            \* where benchmark stands
    evaluated,      \* history: the queries evaluate_models was called with, in order
    raisedAt,       \* history: the number of the call that raised, 0 when none did
    perQuery,       \* per_query
    perModelScores, \* per_model_scores
    summary,        \* summary
    report,         \* the file at output_path, NoReport while it is not written
    printed,        \* whether the remediation guidance was printed
    exitStatus,     \* the status the process exits with, NoExit while it runs
    corpus,         \* the collection the four models were built from: <<[id, tokens]>>
    bm25,           \* the BM25Model object
    lm,             \* the LanguageModelJM object
    vsm,            \* the VectorSpaceModel object
    qArg,           \* the query the caller searches with, as its parts
    kArg,           \* the top_k the caller searches with
    call            \* history: the model searched last with them, and what it returned

judgeVars == <<cfgBackend, constructed, cache, disk, loggedBackend, loggedCache,
               env, now, lastCallTime, prevRemoteEnd, last, rc>>

pureVars == <<arg, result>>

evalVars == <<models, topK, pc, judged, relMap, searched, ranked, ndcgs>>

benchVars == <<queries, modelsDict, outputPath, bpc, evaluated, raisedAt, perQuery,
               perModelScores, summary, report, printed, exitStatus>>

searchVars == <<corpus, bm25, lm, vsm, qArg, kArg, call>>

\* everything but the judge and the clients
notJudge == <<pureVars, evalVars, benchVars, searchVars>>

\* everything but the function applied on its own
notPure == <<judgeVars, evalVars, benchVars, searchVars>>

\* everything but evaluate_models
notEval == <<judgeVars, pureVars, benchVars, searchVars>>

\* everything but benchmark
notBench == <<judgeVars, pureVars, evalVars, searchVars>>

\* everything but the four search models
notSearch == <<judgeVars, pureVars, evalVars, benchVars>>

vars == <<judgeVars, pureVars, evalVars, benchVars, searchVars>>

(***************************************************************************)
(* Bounds of the model.                                                    *)
(***************************************************************************)
MaxRespLen == 3         \* longest remote response text, in characters
MaxShortResp == 1       \* the same, where the text matters only through its label
MaxTime == 2            \* the clock stops being advanced past this second
MaxFileValue == 3       \* largest integer found in a pre-existing cache file
MaxFileEntries == 1     \* most entries of a pre-existing cache file
MaxMinDelay == 2        \* GEMINI_MIN_DELAY_MS, in seconds, when it is set
MaxHint == 1            \* largest retry delay suggested by a 429 payload
MaxQueryWords == 5      \* most words of a query given to the heuristic on its own
MaxDocWords == 2        \* most words of a document given to the heuristic on its own
MaxK == 3               \* largest cut-off k given to dcg_at_k and ndcg_at_k
MaxRels == 3            \* longest label list given to them
MaxTopK == 3            \* largest top_k given to evaluate_models
MaxQueries == 2         \* most queries given to benchmark
MaxQueryParts == 2      \* most whitespace-separated parts of a query given to search
MaxSearchK == 3         \* largest top_k given to search, in absolute value
MaxBoolParts == 3       \* most parts of a boolean query matched against one document
MaxDocs == 12           \* most documents of a collection whose idf is computed

(***************************************************************************)
(* Program constants.                                                      *)
(***************************************************************************)
DefaultMaxRetries == 2
RetryFloor == 1

NoTime == -1
NoHint == -1
NoLabel == -1
NoPath == "None"
NoReport == [written |-> FALSE]
NoExit == -1

NoArg == <<>>
NoResult == [done |-> FALSE, val |-> 0]
Returned(v) == [done |-> TRUE, val |-> v]

Labels == {0, 1, 2}

(***************************************************************************)
(* Queries and documents.  A text is a sequence of words; word lengths and *)
(* lower-casing are tabulated.                                             *)
(***************************************************************************)
Words == {"cat", "Dog", "dog", "ab"}

WordLen(w) == IF w = "ab" THEN 2 ELSE 3

Lower(w) ==
    CASE w = "Dog" -> "dog"
      [] w = "AND" -> "and"
      [] w = "OR" -> "or"
      [] w = "NOT" -> "not"
      [] OTHER -> w

Queries == { <<"cat", "Dog">>, <<"Dog", "ab">> }

Docs == { [id |-> "d1", text |-> <<"dog", "ab">>] }

GeminiModel == "gemini-flash-lite-latest"
GroqModel == "llama-3.1-8b-instant"

Key(q, d) == <<cfgBackend, GeminiModel, GroqModel, q, d.id, d.text>>

Keys == { Key(q, d) : q \in Queries, d \in Docs }

(***************************************************************************)
(* Small helpers.                                                          *)
(***************************************************************************)
Max(a, b) == IF a >= b THEN a ELSE b

Range(s) == { s[i] : i \in 1..Len(s) }

SeqsUpTo(S, n) == UNION { [1..k -> S] : k \in 0..n }

\* an insert that forgets the other entries
PutAlone(m, k, v) == [x \in {k} |-> v]

Put(m, k, v) == [x \in DOMAIN m \cup {k} |-> IF x = k THEN v ELSE m[x]]

EmptyMap == [x \in {} |-> 0]

(***************************************************************************)
(* Remote response texts and the parse of the label,                       *)
(* re.search(r"\b([012])\b", response_text).                               *)
(***************************************************************************)
RespAlphabet == {"0", "2", " "}

WordChars == {"0", "2"}

Responses(n) == SeqsUpTo(RespAlphabet, n)

RECURSIVE LStrip(_)
LStrip(s) == IF s # <<>> /\ Head(s) = " " THEN LStrip(Tail(s)) ELSE s

RECURSIVE RStrip(_)
RStrip(s) ==
    IF s # <<>> /\ s[Len(s)] = " " THEN RStrip(SubSeq(s, 1, Len(s) - 1)) ELSE s

Strip(s) == RStrip(LStrip(s))

Digit(c) == CASE c = "0" -> 0 [] c = "1" -> 1 [] c = "2" -> 2

\* \b([012])\b matches at i: a label digit with no word character on either side
MatchAt(s, i) ==
    /\ s[i] \in {"0", "1", "2"}
    /\ (i = 1 \/ s[i - 1] \notin WordChars)
    /\ (i = Len(s) \/ s[i + 1] \notin WordChars)

Matches(s) == { i \in 1..Len(s) : MatchAt(s, i) }

\* a search that returns the rightmost match
ParseLast(s) ==
    IF Matches(s) = {} THEN NoLabel
    ELSE Digit(s[CHOOSE i \in Matches(s) : \A j \in Matches(s) : i >= j])

\* re.search returns the leftmost match, None (NoLabel) when there is none
ParseLabel(s) ==
    IF Matches(s) = {} THEN NoLabel
    ELSE Digit(s[CHOOSE i \in Matches(s) : \A j \in Matches(s) : i <= j])

(***************************************************************************)
(* gemini_client.call_gemini.  The environment of one call:                *)
(*   minDelay    GEMINI_MIN_DELAY_MS (in seconds),                         *)
(*   maxRetries  GEMINI_MAX_RETRIES,                                       *)
(*   sdk         "genai" (google-genai), "legacy" (google-generativeai     *)
(*               only) or "none",                                          *)
(*   respLen     the length of the longest text the remote services send.  *)
(* The operators return the set of results the call can have; which one    *)
(* happens is the remote service's choice.                                 *)
(***************************************************************************)
MinDelayValues == {0, MaxMinDelay}

RetryValues == -1..DefaultMaxRetries

Sdks == {"genai", "legacy", "none"}

Hints == {NoHint} \cup 0..MaxHint

GeminiEnvs ==
    [minDelay : MinDelayValues, maxRetries : RetryValues, sdk : Sdks,
     respLen : {MaxShortResp}]

\* the throttle: time.sleep(remaining_ms / 1000.0)
ThrottleWait(minDelay, t, lct) ==
    IF minDelay > 0 /\ lct # NoTime
    THEN (IF minDelay - (t - lct) > 0 THEN minDelay - (t - lct) ELSE 0)
    ELSE 0

\* retry_s: the delay the payload suggests, else max(1.0, (min_delay_ms / 1000.0) or 1.0)
RetryDelay(hint, minDelay) ==
    IF hint # NoHint THEN hint
    ELSE Max(RetryFloor, IF minDelay # 0 THEN minDelay ELSE RetryFloor)

\* response.text, or str(response) when it is empty, stripped
GenaiText(x, n) ==
    IF x # <<>> THEN {Strip(x)} ELSE { Strip(y) : y \in Responses(n) }

\* (response.text or "").strip()
LegacyText(x) == Strip(x)

\* is_429 is false or the budget is used up: the exception is re-raised
GenaiRaises(attempt, maxRetries) ==
    IF attempt >= maxRetries THEN {"RateLimit", "ApiError"} ELSE {"ApiError"}

\* the loop `for attempt in range(max_retries + 1)` from `attempt` on, at time t
RECURSIVE GenaiLoop(_, _, _, _, _, _, _)
GenaiLoop(attempt, maxRetries, minDelay, n, t, hints, sleeps) ==
    IF attempt > maxRetries
    THEN {[res |-> "RetriesExhausted", text |-> <<>>, requests |-> attempt,
           hints |-> hints, sleeps |-> sleeps, end |-> t]}
    ELSE { [res |-> "ok", text |-> y, requests |-> attempt + 1,
            hints |-> hints, sleeps |-> sleeps, end |-> t]
           : y \in UNION { GenaiText(x, n) : x \in Responses(n) } }
         \cup
         { [res |-> e, text |-> <<>>, requests |-> attempt + 1,
            hints |-> hints, sleeps |-> sleeps, end |-> t]
           : e \in GenaiRaises(attempt, maxRetries) }
         \cup
         (IF attempt < maxRetries
          THEN UNION { GenaiLoop(attempt + 1, maxRetries, minDelay, n,
                                 t + RetryDelay(h, minDelay),
                                 Append(hints, h),
                                 Append(sleeps, RetryDelay(h, minDelay)))
                       : h \in Hints }
          ELSE {})

\* the older SDK: one request, any exception re-raised
LegacyCall(t, n) ==
    { [res |-> "ok", text |-> LegacyText(x), requests |-> 1,
       hints |-> <<>>, sleeps |-> <<>>, end |-> t] : x \in Responses(n) }
    \cup
    { [res |-> e, text |-> <<>>, requests |-> 1,
       hints |-> <<>>, sleeps |-> <<>>, end |-> t] : e \in {"RateLimit", "ApiError"} }

NoSdk(t) ==
    {[res |-> "SdkMissing", text |-> <<>>, requests |-> 0,
      hints |-> <<>>, sleeps |-> <<>>, end |-> t]}

\* the record of one finished call, with the new _last_call_time
GeminiDone(r, ev, t, lct, waited) ==
    [fn |-> "gemini", res |-> r.res, text |-> r.text, requests |-> r.requests,
     hints |-> r.hints, sleeps |-> r.sleeps, maxRetries |-> ev.maxRetries,
     minDelay |-> ev.minDelay, sdk |-> ev.sdk, called |-> t, waited |-> waited,
     prev |-> NoTime, start |-> IF r.requests > 0 THEN t + waited ELSE NoTime,
     end |-> r.end,
     lct |-> IF r.res = "ok" THEN r.end ELSE lct]

CallGemini(t, lct, hasKey, ev) ==
    IF ~hasKey
    THEN {[fn |-> "gemini", res |-> "NoApiKey", text |-> <<>>, requests |-> 0,
           hints |-> <<>>, sleeps |-> <<>>, maxRetries |-> ev.maxRetries,
           minDelay |-> ev.minDelay, sdk |-> ev.sdk, called |-> t, waited |-> 0,
           prev |-> NoTime, start |-> NoTime, end |-> t, lct |-> lct]}
    ELSE LET waited == ThrottleWait(ev.minDelay, t, lct)
             t0 == t + waited
             runs == CASE ev.sdk = "genai" ->
                            GenaiLoop(0, ev.maxRetries, ev.minDelay, ev.respLen,
                                      t0, <<>>, <<>>)
                       [] ev.sdk = "legacy" -> LegacyCall(t0, ev.respLen)
                       [] OTHER -> NoSdk(t0)
         IN  { GeminiDone(r, ev, t, lct, waited) : r \in runs }

(***************************************************************************)
(* groq_client.call_groq: one request, no throttle, no retry.              *)
(***************************************************************************)
CallGroq(t, lct, hasKey, sdkInstalled, respLen) ==
    LET done(res, text, n) ==
            [fn |-> "groq", res |-> res, text |-> text, requests |-> n,
             hints |-> <<>>, sleeps |-> <<>>, maxRetries |-> 0,
             minDelay |-> 0, sdk |-> IF sdkInstalled THEN "groq" ELSE "none",
             called |-> t, waited |-> 0, prev |-> NoTime,
             start |-> IF n > 0 THEN t ELSE NoTime, end |-> t, lct |-> lct]
    IN  IF ~hasKey THEN {done("NoApiKey", <<>>, 0)}
        ELSE IF ~sdkInstalled THEN {done("SdkMissing", <<>>, 0)}
        ELSE { done("ok", Strip(x), 1) : x \in Responses(respLen) }
             \cup { done(e, <<>>, 1) : e \in {"RateLimit", "ApiError"} }

NoCall ==
    [fn |-> "none", res |-> "none", text |-> <<>>, requests |-> 0,
     hints |-> <<>>, sleeps |-> <<>>, maxRetries |-> 0, minDelay |-> 0,
     sdk |-> "none", called |-> 0, waited |-> 0, prev |-> NoTime, start |-> NoTime,
     end |-> 0, lct |-> NoTime]

\* no function is applied on its own
PureIdle == arg = NoArg /\ result = NoResult

\* evaluate_models is not called
EvalIdle ==
    /\ models = <<>>
    /\ topK = 0
    /\ pc = "idle"
    /\ judged = <<>>
    /\ relMap = EmptyMap
    /\ searched = <<>>
    /\ ranked = <<>>
    /\ ndcgs = EmptyMap

\* benchmark is not called
BenchIdle ==
    /\ queries = <<>>
    /\ modelsDict = <<>>
    /\ outputPath = NoPath
    /\ bpc = "idle"
    /\ evaluated = <<>>
    /\ raisedAt = 0
    /\ perQuery = <<>>
    /\ perModelScores = EmptyMap
    /\ summary = EmptyMap
    /\ report = NoReport
    /\ printed = FALSE
    /\ exitStatus = NoExit

\* no search model is built
NoSearch == [model |-> "none"]

SearchIdle ==
    /\ corpus = <<>>
    /\ bm25 = EmptyMap
    /\ lm = EmptyMap
    /\ vsm = EmptyMap
    /\ qArg = <<>>
    /\ kArg = [given |-> FALSE, k |-> 0]
    /\ call = [model |-> "none"]

\* nothing but the judge and the clients runs
NotJudgeIdle == PureIdle /\ EvalIdle /\ BenchIdle /\ SearchIdle

(***************************************************************************)
(* LLMJudge: construction and the cache file.                              *)
(*   file kinds  "missing"; "corrupt" (unreadable, or not JSON); "scalar"  *)
(*               (JSON null, number or boolean); "array" (JSON array or    *)
(*               string); "dict" (JSON object, m its entries).             *)
(***************************************************************************)
Backends == {"auto", "gemini", "groq", "heuristic", "GROQ", "bogus"}

\* .strip().lower()
Normalize(b) == IF b = "GROQ" THEN "groq" ELSE b

File(kind, m) == [kind |-> kind, m |-> m]

FileMaps ==
    UNION { [K -> 0..MaxFileValue] :
            K \in { S \in SUBSET Keys : Cardinality(S) <= MaxFileEntries } }

InitialFiles ==
    { File(k, EmptyMap) : k \in {"missing", "corrupt", "scalar", "array"} }
    \cup { File("dict", m) : m \in FileMaps }

\* _load_cache: json.loads of the file when it exists, {} when that raises
LoadCache(file) ==
    IF file.kind \in {"missing", "corrupt"} THEN File("dict", EmptyMap)
    ELSE file

\* __init__ ends with logger.info(..., len(self._cache))
Constructed(c) == IF c.kind = "scalar" THEN "TypeError" ELSE "ok"

\* a save put off to a later call: the file keeps what it held
SaveCacheLater(c) == disk

\* _save_cache: the whole of _cache, as JSON
SaveCache(c) == File("dict", c.m)

(***************************************************************************)
(* LLMJudge._choose_backend; a probe answers "yes", "no" or "raise".       *)
(***************************************************************************)
Probe == {"yes", "no", "raise"}

Explicit(b) == Normalize(b) \in {"gemini", "groq", "heuristic"}

\* an unknown backend name sent to the heuristic instead of to "auto"
ChooseBackendStrict(b, gp, qp) ==
    IF Explicit(b) THEN Normalize(b)
    ELSE IF b # "auto" THEN "heuristic"
    ELSE IF gp = "yes" THEN "gemini"
    ELSE IF qp = "yes" THEN "groq"
    ELSE "heuristic"

\* an explicit remote backend without credentials replaced by the heuristic
ChooseBackendFallback(b, gp, qp) ==
    IF Explicit(b)
    THEN (IF (Normalize(b) = "gemini" /\ gp = "no") \/ (Normalize(b) = "groq" /\ qp = "no")
          THEN "heuristic" ELSE Normalize(b))
    ELSE IF gp = "yes" THEN "gemini"
    ELSE IF qp = "yes" THEN "groq"
    ELSE "heuristic"

ChooseBackend(b, gp, qp) ==
    IF Explicit(b) THEN Normalize(b)
    ELSE IF gp = "yes" THEN "gemini"
    ELSE IF qp = "yes" THEN "groq"
    ELSE "heuristic"

\* the probes a score call evaluates, "unused" for one it never runs
GeminiProbes(b) ==
    IF ~Explicit(b) \/ Normalize(b) = "gemini" THEN Probe ELSE {"unused"}

GroqProbes(b, gp) ==
    IF (~Explicit(b) /\ gp # "yes") \/ Normalize(b) = "groq" THEN Probe ELSE {"unused"}

(***************************************************************************)
(* LLMJudge._heuristic_score.                                              *)
(***************************************************************************)
Tokenize(text) == [i \in 1..Len(text) |-> Lower(text[i])]

LongTokens(ts) == SelectSeq(ts, LAMBDA t : WordLen(t) >= 3)

\* the thresholds taken as strict
HeuristicScoreStrict(query, docText) ==
    LET qT == LongTokens(Tokenize(query))
        dT == Range(LongTokens(Tokenize(docText)))
        overlap == Cardinality({ i \in 1..Len(qT) : qT[i] \in dT })
        n == Max(1, Len(qT))
    IN  IF qT = <<>> THEN 0
        ELSE IF 10 * overlap > 6 * n THEN 2
        ELSE IF 4 * overlap > n THEN 1
        ELSE 0

HeuristicScore(query, docText) ==
    LET qT == LongTokens(Tokenize(query))
        dT == Range(LongTokens(Tokenize(docText)))
        overlap == Cardinality({ i \in 1..Len(qT) : qT[i] \in dT })
        n == Max(1, Len(qT))
    IN  IF qT = <<>> THEN 0
        ELSE IF 10 * overlap >= 6 * n THEN 2
        ELSE IF 4 * overlap >= n THEN 1
        ELSE 0

(***************************************************************************)
(* LLMJudge.score.                                                         *)
(***************************************************************************)
\* a lookup that never finds the key
CachedNever(c, key) == c.kind = "dict" /\ key \in DOMAIN c.m /\ FALSE

Cached(c, key) == c.kind = "dict" /\ key \in DOMAIN c.m

Call(key, path, outcome, ret, gp, qp, calls) ==
    [key |-> key, path |-> path, outcome |-> outcome, ret |-> ret,
     gp |-> gp, qp |-> qp, calls |-> calls]

NoScore == Call(<<>>, "none", "none", NoLabel, "unused", "unused", 0)

\* self._cache[key] = val; self._save_cache(); return val
Store(key, val, writable, path, gp, qp) ==
    IF cache.kind # "dict"
    THEN /\ UNCHANGED <<cache, disk>>
         /\ last' = Call(key, path, "TypeError", NoLabel, gp, qp, 1)
    ELSE /\ cache' = File("dict", Put(cache.m, key, val))
         /\ IF writable
            THEN /\ disk' = SaveCache(cache')
                 /\ last' = Call(key, path, "return", val, gp, qp, 1)
            ELSE /\ UNCHANGED disk
                 /\ last' = Call(key, path, "WriteError", NoLabel, gp, qp, 1)

\* lines 189-193
ScoreHit(q, d) ==
    /\ constructed = "ok"
    /\ Cached(cache, Key(q, d))
    /\ loggedCache' = TRUE
    /\ last' = Call(Key(q, d), "hit", "return", cache.m[Key(q, d)], "unused", "unused", 0)
    /\ rc' = NoCall
    /\ UNCHANGED <<cfgBackend, constructed, cache, disk, loggedBackend,
                   env, now, lastCallTime, prevRemoteEnd>>
    /\ UNCHANGED notJudge

\* a remote backend without credentials, or whose probe raises
ScoreUnconfigured(q, d) ==
    /\ constructed = "ok"
    /\ ~Cached(cache, Key(q, d))
    /\ \E gp \in GeminiProbes(cfgBackend) : \E qp \in GroqProbes(cfgBackend, gp) :
         LET backend == ChooseBackend(cfgBackend, gp, qp)
             probe == IF backend = "gemini" THEN gp ELSE qp
         IN  /\ backend \in {"gemini", "groq"}
             /\ probe # "yes"
             /\ last' = Call(Key(q, d), backend,
                             IF probe = "no" THEN "ConfigError" ELSE "ProbeError",
                             NoLabel, gp, qp, 0)
    /\ rc' = NoCall
    /\ UNCHANGED <<cfgBackend, constructed, cache, disk, loggedBackend, loggedCache,
                   env, now, lastCallTime, prevRemoteEnd>>
    /\ UNCHANGED notJudge

\* what a finished remote call r leaves behind
Remote(r) ==
    /\ r.end <= MaxTime
    /\ rc' = [r EXCEPT !.prev = prevRemoteEnd]
    /\ now' = r.end
    /\ lastCallTime' = r.lct
    /\ prevRemoteEnd' = IF r.fn = "gemini" /\ r.requests > 0 THEN r.end
                        ELSE prevRemoteEnd

\* the tail shared by the gemini and groq branches, r the finished remote call
ScoreRemote(q, d, backend, r, gp, qp) ==
    /\ Remote(r)
    /\ IF r.res # "ok"
       THEN /\ last' = Call(Key(q, d), backend, r.res, NoLabel, gp, qp, 1)
            /\ UNCHANGED <<cache, disk, loggedBackend>>
       ELSE IF ParseLabel(r.text) = NoLabel
       THEN /\ last' = Call(Key(q, d), backend, "FormatError", NoLabel, gp, qp, 1)
            /\ UNCHANGED <<cache, disk, loggedBackend>>
       ELSE /\ loggedBackend' = TRUE
            /\ \E writable \in BOOLEAN :
                 Store(Key(q, d), ParseLabel(r.text), writable, backend, gp, qp)
    /\ UNCHANGED <<cfgBackend, constructed, loggedCache, env>>
    /\ UNCHANGED notJudge

\* lines 215-234
ScoreGemini(q, d) ==
    /\ constructed = "ok"
    /\ ~Cached(cache, Key(q, d))
    /\ \E gp \in GeminiProbes(cfgBackend) : \E qp \in GroqProbes(cfgBackend, gp) :
         /\ ChooseBackend(cfgBackend, gp, qp) = "gemini"
         /\ gp = "yes"
         /\ \E r \in CallGemini(now, lastCallTime, TRUE, env) :
              ScoreRemote(q, d, "gemini", r, gp, qp)

\* lines 236-255
ScoreGroq(q, d) ==
    /\ constructed = "ok"
    /\ ~Cached(cache, Key(q, d))
    /\ \E gp \in GeminiProbes(cfgBackend) : \E qp \in GroqProbes(cfgBackend, gp) :
         /\ ChooseBackend(cfgBackend, gp, qp) = "groq"
         /\ qp = "yes"
         /\ \E sdkInstalled \in BOOLEAN :
              \E r \in CallGroq(now, lastCallTime, TRUE, sdkInstalled, env.respLen) :
                 ScoreRemote(q, d, "groq", r, gp, qp)

\* lines 257-262
ScoreHeuristic(q, d) ==
    /\ constructed = "ok"
    /\ ~Cached(cache, Key(q, d))
    /\ \E gp \in GeminiProbes(cfgBackend) : \E qp \in GroqProbes(cfgBackend, gp) :
         /\ ChooseBackend(cfgBackend, gp, qp) = "heuristic"
         /\ \E writable \in BOOLEAN :
              Store(Key(q, d), HeuristicScore(q, d.text), writable, "heuristic", gp, qp)
    /\ loggedBackend' = TRUE
    /\ rc' = NoCall
    /\ UNCHANGED <<cfgBackend, constructed, loggedCache, env, now, lastCallTime,
                   prevRemoteEnd>>
    /\ UNCHANGED notJudge

Score(q, d) ==
    \/ ScoreHit(q, d)
    \/ ScoreUnconfigured(q, d)
    \/ ScoreGemini(q, d)
    \/ ScoreGroq(q, d)
    \/ ScoreHeuristic(q, d)

\* benchmark, the "backend" entry of the report's judge metadata:
\* judge._choose_backend() if judge._logged_backend else "cache_only"
JudgeBackendEntry(logged, b, gp, qp) ==
    IF logged THEN ChooseBackend(b, gp, qp) ELSE "cache_only"

\* time passes between two calls
Tick ==
    /\ now < MaxTime
    /\ now' = now + 1
    /\ UNCHANGED <<cfgBackend, constructed, cache, disk, loggedBackend, loggedCache,
                   env, lastCallTime, prevRemoteEnd, last, rc>>
    /\ UNCHANGED notJudge

\* the environment of the judge: the throttle on, GEMINI_MAX_RETRIES=0
JudgeEnvs ==
    {[minDelay |-> MaxMinDelay, maxRetries |-> 0, sdk |-> "genai",
      respLen |-> MaxShortResp]}

Init ==
    /\ cfgBackend \in Backends
    /\ \E file \in InitialFiles :
         /\ disk = file
         /\ cache = LoadCache(file)
         /\ constructed = Constructed(LoadCache(file))
    /\ loggedBackend = FALSE
    /\ loggedCache = FALSE
    /\ env \in JudgeEnvs
    /\ now = 0
    /\ lastCallTime = NoTime
    /\ prevRemoteEnd = NoTime
    /\ last = NoScore
    /\ rc = NoCall
    /\ NotJudgeIdle

\* the judge alone: the clock moves only while a call sleeps
Next == \E q \in Queries, d \in Docs : Score(q, d)

Spec == Init /\ [][Next]_vars

(***************************************************************************)
(* The judge over longer response texts, its cache file missing at start.  *)
(***************************************************************************)
InitText ==
    /\ cfgBackend \in {"auto", "gemini"}
    /\ disk = File("missing", EmptyMap)
    /\ cache = LoadCache(disk)
    /\ constructed = Constructed(cache)
    /\ loggedBackend = FALSE
    /\ loggedCache = FALSE
    /\ env = [minDelay |-> 0, maxRetries |-> 0, sdk |-> "genai",
              respLen |-> MaxRespLen]
    /\ now = 0
    /\ lastCallTime = NoTime
    /\ prevRemoteEnd = NoTime
    /\ last = NoScore
    /\ rc = NoCall
    /\ NotJudgeIdle

SpecText == InitText /\ [][Next]_vars

(***************************************************************************)
(* The two clients called directly, under every environment.               *)
(***************************************************************************)
RemoteCall(r) ==
    /\ Remote(r)
    /\ UNCHANGED <<cfgBackend, constructed, cache, disk, loggedBackend, loggedCache,
                   env, last>>
    /\ UNCHANGED notJudge

GeminiCall == \E hasKey \in BOOLEAN :
    \E r \in CallGemini(now, lastCallTime, hasKey, env) : RemoteCall(r)

GroqCall == \E hasKey \in BOOLEAN, sdkInstalled \in BOOLEAN :
    \E r \in CallGroq(now, lastCallTime, hasKey, sdkInstalled, env.respLen) :
        RemoteCall(r)

InitClient ==
    /\ cfgBackend = "auto"
    /\ disk = File("missing", EmptyMap)
    /\ cache = LoadCache(disk)
    /\ constructed = Constructed(cache)
    /\ loggedBackend = FALSE
    /\ loggedCache = FALSE
    /\ env \in GeminiEnvs
    /\ now = 0
    /\ lastCallTime = NoTime
    /\ prevRemoteEnd = NoTime
    /\ last = NoScore
    /\ rc = NoCall
    /\ NotJudgeIdle

NextClient == GeminiCall \/ GroqCall \/ Tick

SpecClient == InitClient /\ [][NextClient]_vars

(***************************************************************************)
(* LLMJudge._heuristic_score applied on its own to every short query and   *)
(* document.  The judge and the clients stay as constructed.               *)
(***************************************************************************)
JudgeIdle ==
    /\ cfgBackend = "auto"
    /\ disk = File("missing", EmptyMap)
    /\ cache = LoadCache(disk)
    /\ constructed = Constructed(cache)
    /\ loggedBackend = FALSE
    /\ loggedCache = FALSE
    /\ env = [minDelay |-> 0, maxRetries |-> 0, sdk |-> "genai",
              respLen |-> MaxShortResp]
    /\ now = 0
    /\ lastCallTime = NoTime
    /\ prevRemoteEnd = NoTime
    /\ last = NoScore
    /\ rc = NoCall

HeuristicWords == {"cat", "Dog", "ab"}

HeuristicArgs ==
    [query : SeqsUpTo(HeuristicWords, MaxQueryWords),
     doc : SeqsUpTo({"cat", "dog", "ab"}, MaxDocWords)]

InitHeuristic ==
    /\ JudgeIdle
    /\ EvalIdle
    /\ BenchIdle
    /\ SearchIdle
    /\ arg \in HeuristicArgs
    /\ result = NoResult

HeuristicCall ==
    /\ result = NoResult
    /\ result' = Returned(HeuristicScore(arg.query, arg.doc))
    /\ UNCHANGED <<notPure, arg>>

NextHeuristic == HeuristicCall

SpecHeuristic == InitHeuristic /\ [][NextHeuristic]_vars

(***************************************************************************)
(* dcg_at_k, ndcg_at_k and the nDCG of evaluate_models.  A DCG is counted  *)
(* in thousandths, 1/log2(n) rounded to the nearest thousandth; an nDCG is *)
(* the fraction [num, den] of two such DCGs, den > 0.                      *)
(***************************************************************************)
Scale == 1000

\* Scale / math.log2(n)
InvLog2(n) ==
    CASE n = 2 -> 1000 [] n = 3 -> 631 [] n = 4 -> 500 [] n = 5 -> 431
      [] n = 6 -> 387  [] n = 7 -> 356 [] n = 8 -> 333 [] n = 9 -> 315
      [] n = 10 -> 301

Min(a, b) == IF a <= b THEN a ELSE b

\* s[:k], k >= 0
Take(s, k) == SubSeq(s, 1, Min(k, Len(s)))

\* s.extend([0] * (k - len(s))) when len(s) < k
PadTo(s, k) == [i \in 1..Max(k, Len(s)) |-> IF i <= Len(s) THEN s[i] ELSE 0]

\* sorted(s, reverse=True) of a list of integers
RECURSIVE SortDesc(_)
SortDesc(s) ==
    IF s = <<>> THEN <<>>
    ELSE LET i == CHOOSE i \in 1..Len(s) : \A j \in 1..Len(s) : s[i] >= s[j]
         IN  <<s[i]>> \o SortDesc([j \in 1..(Len(s) - 1) |-> IF j < i THEN s[j] ELSE s[j + 1]])

\* the loop of dcg_at_k from the element of rank `rank` on
RECURSIVE DcgTail(_, _)
DcgTail(relsK, rank) ==
    IF rank > Len(relsK) THEN 0
    ELSE relsK[rank] * InvLog2(rank + 1) + DcgTail(relsK, rank + 1)

\* the discount of rank i taken as log2(i)
DcgAtKLogOfRank(rels, k) ==
    LET relsK == PadTo(Take(rels, k), k)
        tail[rank \in 2..(Len(relsK) + 1)] ==
            IF rank > Len(relsK) THEN 0
            ELSE relsK[rank] * InvLog2(rank) + tail[rank + 1]
    IN  IF relsK = <<>> THEN 0 ELSE Scale * relsK[1] + tail[2]

DcgAtK(rels, k) ==
    LET relsK == PadTo(Take(rels, k), k)
    IN  IF relsK = <<>> THEN 0 ELSE Scale * relsK[1] + DcgTail(relsK, 2)

Frac(num, den) == [num |-> num, den |-> den]

Zero == Frac(0, 1)

\* the quotient computed whatever the ideal DCG
NdcgAtKUnguarded(rels, k) ==
    Frac(DcgAtK(rels, k), DcgAtK(PadTo(SortDesc(Take(rels, k)), k), k))

NdcgAtK(rels, k) ==
    LET dcg == DcgAtK(rels, k)
        ideal == PadTo(SortDesc(Take(rels, k)), k)
        idcg == DcgAtK(ideal, k)
    IN  IF idcg > 0 THEN Frac(dcg, idcg) ELSE Zero

\* the ideal ranking taken from the ranked documents alone
ModelNdcgOfRanked(rels, labels, k) == NdcgAtK(rels, k)

\* evaluate_models, lines 284-285 and 299-300: rels the labels of the ranked
\* documents, labels those of the whole collection
ModelNdcg(rels, labels, k) ==
    LET idcg == DcgAtK(SortDesc(labels), k)
        dcg == DcgAtK(rels, k)
    IN  IF idcg > 0 THEN Frac(dcg, idcg) ELSE Zero

DcgArgs ==
    [fn : {"dcg_at_k", "ndcg_at_k", "evaluate_models"},
     rels : SeqsUpTo(Labels, MaxRels),
     k : 0..MaxK]

InitDcg ==
    /\ JudgeIdle
    /\ EvalIdle
    /\ BenchIdle
    /\ SearchIdle
    /\ arg \in DcgArgs
    /\ result = NoResult

DcgCall ==
    /\ arg.fn = "dcg_at_k"
    /\ result = NoResult
    /\ result' = Returned(DcgAtK(arg.rels, arg.k))
    /\ UNCHANGED <<notPure, arg>>

NdcgCall ==
    /\ arg.fn = "ndcg_at_k"
    /\ result = NoResult
    /\ result' = Returned(NdcgAtK(arg.rels, arg.k))
    /\ UNCHANGED <<notPure, arg>>

\* the nDCG evaluate_models gives a model that ranks the collection as given
ModelNdcgCall ==
    /\ arg.fn = "evaluate_models"
    /\ result = NoResult
    /\ result' = Returned(ModelNdcg(arg.rels, arg.rels, arg.k))
    /\ UNCHANGED <<notPure, arg>>

NextDcg == DcgCall \/ NdcgCall \/ ModelNdcgCall

SpecDcg == InitDcg /\ [][NextDcg]_vars

(***************************************************************************)
(* evaluate_models on one query: judge_relevance_map over the collection,  *)
(* then one search per model.  judge.score answers with a label or raises; *)
(* a model answers with any ranking of distinct doc ids, ids the           *)
(* collection does not hold included.                                      *)
(***************************************************************************)
\* corpus_raw, in iteration order
CorpusIds == <<"d1", "d2", "d3">>

UnknownId == "d9"

ModelLists == {<<>>, <<"A">>, <<"A", "B">>}

Rankings ==
    { r \in SeqsUpTo(Range(CorpusIds) \cup {UnknownId}, Len(CorpusIds)) :
        \A i, j \in 1..Len(r) : i # j => r[i] # r[j] }

\* the judging stopped after the first document
JudgingDoneEarly(js) == Len(js) >= 1

\* judge_relevance_map has gone through corpus_raw.items()
JudgingDone(js) == Len(js) = Len(CorpusIds)

\* rels: int(rel_map.get(doc_id, 0)) for each ranked doc
RelsOf(ranking, rm) ==
    [i \in 1..Len(ranking) |-> IF ranking[i] \in DOMAIN rm THEN rm[ranking[i]] ELSE 0]

\* rel_map.values()
ValuesOf(rm) ==
    LET ids == SelectSeq(CorpusIds, LAMBDA d : d \in DOMAIN rm)
    IN  [i \in 1..Len(ids) |-> rm[ids[i]]]

InitEval ==
    /\ JudgeIdle
    /\ PureIdle
    /\ BenchIdle
    /\ SearchIdle
    /\ models \in ModelLists
    /\ topK \in 1..MaxTopK
    /\ pc = "judging"
    /\ judged = <<>>
    /\ relMap = EmptyMap
    /\ searched = <<>>
    /\ ranked = <<>>
    /\ ndcgs = EmptyMap

\* lines 53-54: one judge.score call, returning a label or raising
JudgeScore ==
    /\ pc = "judging"
    /\ ~JudgingDone(judged)
    /\ LET d == CorpusIds[Len(judged) + 1]
       IN  /\ judged' = Append(judged, d)
           /\ \/ \E label \in Labels :
                    /\ relMap' = Put(relMap, d, label)
                    /\ pc' = "judging"
              \/ /\ pc' = "raised"
                 /\ UNCHANGED relMap
    /\ UNCHANGED <<notEval, models, topK, searched, ranked, ndcgs>>

\* lines 55, 284-285: the map is complete, the model loop starts
StartSearching ==
    /\ pc = "judging"
    /\ JudgingDone(judged)
    /\ pc' = "searching"
    /\ UNCHANGED <<notEval, models, topK, judged, relMap, searched,
                   ranked, ndcgs>>

\* lines 287-302: one turn of the model loop
Search ==
    /\ pc = "searching"
    /\ Len(searched) < Len(models)
    /\ LET m == models[Len(searched) + 1]
       IN  \E r \in Rankings :
              /\ searched' = Append(searched, m)
              /\ ranked' = r
              /\ ndcgs' = Put(ndcgs, m, ModelNdcg(RelsOf(r, relMap), ValuesOf(relMap), topK))
    /\ UNCHANGED <<notEval, models, topK, pc, judged, relMap>>

\* line 304
ReturnNdcgs ==
    /\ pc = "searching"
    /\ Len(searched) = Len(models)
    /\ pc' = "done"
    /\ UNCHANGED <<notEval, models, topK, judged, relMap, searched,
                   ranked, ndcgs>>

NextEval == JudgeScore \/ StartSearching \/ Search \/ ReturnNdcgs

SpecEval == InitEval /\ [][NextEval]_vars

(***************************************************************************)
(* benchmark.  evaluate_models is one step of it: the call either raises   *)
(* or returns an nDCG for every model of models_dict.  nDCG values are     *)
(* counted in tenths, a mean is the fraction sum / count.                  *)
(***************************************************************************)
QueryNames == {"q1", "q2"}
ScoreValues == {0, 6, 8, 10}
ReportPath == "reports/llm_judge_benchmark.json"

RECURSIVE SumSeq(_)
SumSeq(s) == IF s = <<>> THEN 0 ELSE s[1] + SumSeq(Tail(s))

\* the score of the last query alone
MeanOfLast(scores) == IF scores # <<>> THEN Frac(scores[Len(scores)], 1) ELSE Zero

\* line 340: mean(scores) if scores else 0.0
Mean(scores) == IF scores # <<>> THEN Frac(SumSeq(scores), Len(scores)) ELSE Zero

\* the handler logs, prints and goes on with the next query
ExceptHandlerContinue == [printed |-> TRUE, exitStatus |-> NoExit, bpc |-> "loop"]

\* lines 324-332: except Exception: log, print the guidance, raise SystemExit(1)
ExceptHandler == [printed |-> TRUE, exitStatus |-> 1, bpc |-> "exited"]

InitBench ==
    /\ JudgeIdle
    /\ PureIdle
    /\ EvalIdle
    /\ SearchIdle
    /\ queries \in SeqsUpTo(QueryNames, MaxQueries)
    /\ modelsDict \in ModelLists
    /\ outputPath \in {NoPath, ReportPath}
    /\ bpc = "loop"
    /\ evaluated = <<>>
    /\ raisedAt = 0
    /\ perQuery = <<>>
    /\ perModelScores = [m \in Range(modelsDict) |-> <<>>]
    /\ summary = EmptyMap
    /\ report = NoReport
    /\ printed = FALSE
    /\ exitStatus = NoExit

\* lines 321-323, 333-335: evaluate_models returns for the next query
EvaluateReturns ==
    /\ bpc = "loop"
    /\ Len(evaluated) < Len(queries)
    /\ LET q == queries[Len(evaluated) + 1]
       IN  \E nd \in [Range(modelsDict) -> ScoreValues] :
              /\ evaluated' = Append(evaluated, q)
              /\ perQuery' = Append(perQuery, [query |-> q, ndcg |-> nd])
              /\ perModelScores' =
                     [m \in DOMAIN perModelScores |-> Append(perModelScores[m], nd[m])]
    /\ UNCHANGED <<notBench, queries, modelsDict, outputPath, bpc, raisedAt, summary,
                   report, printed, exitStatus>>

\* lines 321-332: evaluate_models raises for the next query
EvaluateRaises ==
    /\ bpc = "loop"
    /\ Len(evaluated) < Len(queries)
    /\ evaluated' = Append(evaluated, queries[Len(evaluated) + 1])
    /\ raisedAt' = Len(evaluated) + 1
    /\ printed' = ExceptHandler.printed
    /\ exitStatus' = ExceptHandler.exitStatus
    /\ bpc' = ExceptHandler.bpc
    /\ UNCHANGED <<notBench, queries, modelsDict, outputPath, perQuery, perModelScores,
                   summary, report>>

\* lines 337-342: the loop is over, the means are taken
Summarize ==
    /\ bpc = "loop"
    /\ Len(evaluated) = Len(queries)
    /\ summary' = [m \in DOMAIN perModelScores |-> Mean(perModelScores[m])]
    /\ bpc' = "summarized"
    /\ UNCHANGED <<notBench, queries, modelsDict, outputPath, evaluated, raisedAt,
                   perQuery, perModelScores, report, printed, exitStatus>>

\* lines 344-360: the report is written and the summary returned
WriteReport ==
    /\ bpc = "summarized"
    /\ outputPath # NoPath
    /\ report' = [written |-> TRUE, queries |-> queries, per_query |-> perQuery,
                  summary |-> summary]
    /\ bpc' = "returned"
    /\ UNCHANGED <<notBench, queries, modelsDict, outputPath, evaluated, raisedAt,
                   perQuery, perModelScores, summary, printed, exitStatus>>

\* lines 345, 358: mkdir or write_text raises OSError, which nothing catches
WriteFails ==
    /\ bpc = "summarized"
    /\ outputPath # NoPath
    /\ exitStatus' = 1
    /\ bpc' = "exited"
    /\ UNCHANGED <<notBench, queries, modelsDict, outputPath, evaluated, raisedAt,
                   perQuery, perModelScores, summary, report, printed>>

\* lines 344, 360: output_path is None, the summary is returned
SkipReport ==
    /\ bpc = "summarized"
    /\ outputPath = NoPath
    /\ bpc' = "returned"
    /\ UNCHANGED <<notBench, queries, modelsDict, outputPath, evaluated, raisedAt,
                   perQuery, perModelScores, summary, report, printed, exitStatus>>

NextBench ==
    EvaluateReturns \/ EvaluateRaises \/ Summarize \/ WriteReport \/ WriteFails
        \/ SkipReport

SpecBench == InitBench /\ [][NextBench]_vars

(***************************************************************************)
(* The four search models.  A query is the sequence of its whitespace-     *)
(* separated parts, a document the list of its tokens.  Scores are counted *)
(* in thousandths, with logarithms rounded to the thousandth.              *)
(***************************************************************************)
\* corpus.py STOPWORDS, as far as the words of the model go: "or" is not one
Stopwords == {"a", "the", "and", "not"}
QueryParts == {"cat", "dog", "emu", "the", "OR", "NOT"}

\* top_k: None, or an integer
NoTopK == [given |-> FALSE, k |-> 0]
TopKs == {NoTopK} \cup [given : {TRUE}, k : (0 - MaxSearchK)..MaxSearchK]

\* the document ids in Python's string order
IdOrder == <<"d1", "d10", "d2">>
IdRank(id) == CHOOSE i \in 1..Len(IdOrder) : IdOrder[i] = id

Doc(id, tokens) == [id |-> id, tokens |-> tokens]

Corpora ==
    { <<>>,
      <<Doc("d1", <<>>)>>,
      <<Doc("d2", <<"cat">>), Doc("d1", <<>>)>>,
      <<Doc("d2", <<"cat", "dog">>), Doc("d10", <<"dog", "dog", "fish">>),
        Doc("d1", <<"cat">>)>> }

DocIds(corp) == { corp[i].id : i \in 1..Len(corp) }
TokensOf(corp, id) == (CHOOSE d \in Range(corp) : d.id = id).tokens
Count(tokens, t) == Cardinality({ i \in 1..Len(tokens) : tokens[i] = t })
Terms(corp) == UNION { Range(corp[i].tokens) : i \in 1..Len(corp) }

\* collections.Counter(tokens)
Counter(tokens) == [t \in Range(tokens) |-> Count(tokens, t)]

\* Counter.__getitem__, dict.get(key, 0): 0 for a missing key
CounterGet(c, t) == IF t \in DOMAIN c THEN c[t] ELSE 0

\* a lookup that stores the default under a missing key
CounterAfterGetInserting(c, t) == IF t \in DOMAIN c THEN c ELSE Put(c, t, 0)

\* the counter after c[t]: Counter.__missing__ returns 0 and stores nothing
CounterAfterGet(c, t) == c

RECURSIVE AfterLookups(_, _)
AfterLookups(c, ts) ==
    IF ts = <<>> THEN c ELSE AfterLookups(CounterAfterGet(c, Head(ts)), Tail(ts))

\* corpus.py tokenize: the lower-cased words; parentheses are no word
TokenizeText(parts) ==
    LET words == SelectSeq(parts, LAMBDA p : p \notin {"(", ")"})
    IN  [i \in 1..Len(words) |-> Lower(words[i])]

\* corpus.py preprocess
Preprocess(parts) == SelectSeq(TokenizeText(parts), LAMBDA t : t \notin Stopwords)

\* ranked[:top_k]
Slice(s, tk) ==
    IF ~tk.given THEN s
    ELSE IF tk.k >= 0 THEN SubSeq(s, 1, Min(tk.k, Len(s)))
    ELSE SubSeq(s, 1, Max(Len(s) + tk.k, 0))

Pair(id, score) == [id |-> id, score |-> score]

\* sorted(..., key=score, reverse=True): stable, ties keep their order
InsertByScore(sorted, x) ==
    LET n == Cardinality({ i \in 1..Len(sorted) : sorted[i].score >= x.score })
    IN  SubSeq(sorted, 1, n) \o <<x>> \o SubSeq(sorted, n + 1, Len(sorted))

RECURSIVE SortByScore(_)
SortByScore(pairs) ==
    IF pairs = <<>> THEN <<>>
    ELSE InsertByScore(SortByScore(SubSeq(pairs, 1, Len(pairs) - 1)), pairs[Len(pairs)])

RECURSIVE SumOver(_, _)
SumOver(S, f) ==
    IF S = {} THEN 0
    ELSE LET x == CHOOSE y \in S : TRUE IN f[x] + SumOver(S \ {x}, f)

\* 1000 * ln(n), by the prime factors of n
LnPrime(p) ==
    CASE p = 2 -> 693 [] p = 3 -> 1099 [] p = 5 -> 1609 [] p = 7 -> 1946
      [] p = 11 -> 2398 [] p = 13 -> 2565 [] p = 17 -> 2833 [] p = 19 -> 2944
      [] p = 23 -> 3135 [] p = 29 -> 3367 [] p = 31 -> 3434 [] p = 37 -> 3611
      [] p = 41 -> 3714 [] p = 43 -> 3761 [] p = 47 -> 3850
      [] p = 53 -> 3970 [] p = 59 -> 4078 [] p = 61 -> 4111 [] p = 67 -> 4205 [] p = 71 -> 4263

RECURSIVE LnMilli(_)
LnMilli(n) ==
    IF n = 1 THEN 0
    ELSE LET p == CHOOSE q \in 2..n : n % q = 0 /\ \A r \in 2..(q - 1) : n % r # 0
         IN  LnPrime(p) + LnMilli(n \div p)

\* 1000 * log10(n)
Log10Milli(n) ==
    CASE n = 1 -> 0 [] n = 2 -> 301 [] n = 3 -> 477 [] n = 4 -> 602 [] n = 5 -> 699
      [] n = 6 -> 778 [] n = 7 -> 845 [] n = 8 -> 903

RECURSIVE SqrtBetween(_, _, _)
SqrtBetween(n, lo, hi) ==
    IF lo = hi THEN lo
    ELSE LET mid == (lo + hi + 1) \div 2
         IN  IF mid * mid <= n THEN SqrtBetween(n, mid, hi) ELSE SqrtBetween(n, lo, mid - 1)

\* the integer part of the square root
ISqrt(n) == SqrtBetween(n, 0, Min(n, 40000))

(***************************************************************************)
(* BM25Model.                                                              *)
(***************************************************************************)
K1 == Frac(3, 2)
B == Frac(3, 4)

BM25Model(corp) ==
    LET lens == [id \in DocIds(corp) |-> Len(TokensOf(corp, id))]
    IN  [doc_lens |-> lens,
         avgdl |-> IF corp # <<>> THEN Frac(SumOver(DocIds(corp), lens), Len(corp)) ELSE Zero,
         N |-> Len(corp),
         doc_freqs |-> [t \in Terms(corp) |->
                           Cardinality({ id \in DocIds(corp) : t \in Range(TokensOf(corp, id)) })],
         tf |-> [id \in DocIds(corp) |-> Counter(TokensOf(corp, id))]]

\* the idf without the added 1: ln((N - n + 0.5) / (n + 0.5))
IdfClassic(st, term) ==
    LET n == CounterGet(st.doc_freqs, term)
    IN  LnMilli(2 * st.N - 2 * n + 1) - LnMilli(2 * n + 1)

\* _idf: ln((N - n + 0.5) / (n + 0.5) + 1) = ln((2N + 2) / (2n + 1))
Idf(st, term) ==
    LET n == CounterGet(st.doc_freqs, term)
    IN  LnMilli(2 * st.N + 2) - LnMilli(2 * n + 1)

\* lines 50-59: idf * tf * (k1 + 1) / (tf + k1 * (1 - b + b * doc_len / avgdl))
BM25Term(st, id, term) ==
    LET tf == CounterGet(st.tf[id], term)
        x == IF st.avgdl.num > 0
             THEN (B.den - B.num) * st.avgdl.num + B.num * st.doc_lens[id] * st.avgdl.den
             ELSE 1
        y == IF st.avgdl.num > 0 THEN B.den * st.avgdl.num ELSE 1
    IN  (Idf(st, term) * tf * (K1.num + K1.den) * y) \div (tf * K1.den * y + K1.num * x)

\* _search_all: only documents met with a query term of doc_freqs get a score
BM25SearchAll(st, corp, query) ==
    LET known == SelectSeq(Preprocess(query), LAMBDA t : t \in DOMAIN st.doc_freqs)
        scored == IF known = <<>> THEN <<>> ELSE corp
        scores == [i \in 1..Len(scored) |->
                      Pair(scored[i].id,
                           SumSeq([j \in 1..Len(known) |-> BM25Term(st, scored[i].id, known[j])]))]
    IN  SortByScore(scores)

BM25Search(st, corp, query, tk) == Slice(BM25SearchAll(st, corp, query), tk)

\* the object after a search: the Counter lookups of lines 27 and 50
BM25After(st, query) ==
    LET known == SelectSeq(Preprocess(query), LAMBDA t : t \in DOMAIN st.doc_freqs)
    IN  [st EXCEPT !.doc_freqs = IF st.N > 0 THEN AfterLookups(@, known) ELSE @,
                   !.tf = [id \in DOMAIN @ |-> AfterLookups(@[id], known)]]

(***************************************************************************)
(* LanguageModelJM.                                                        *)
(***************************************************************************)
Lam == Frac(1, 2)

\* 1000 * ln(1e-12)
LnFloor == -27631

LanguageModelJM(corp, lam) ==
    LET all == Terms(corp)
        clen == SumOver(DocIds(corp), [id \in DocIds(corp) |-> Len(TokensOf(corp, id))])
    IN  [lam |-> lam,
         doc_lens |-> [id \in DocIds(corp) |-> Len(TokensOf(corp, id))],
         doc_counts |-> [id \in DocIds(corp) |-> Counter(TokensOf(corp, id))],
         collection_len |-> clen,
         collection_probs |->
             [t \in all |->
                 Frac(SumOver(DocIds(corp),
                              [id \in DocIds(corp) |-> Count(TokensOf(corp, id), t)]),
                      clen)]]

\* the two probabilities added without their weights: ln(max(tf / doc_len + P(term | collection), 1e-12))
LMTermUnweighted(st, id, term) ==
    LET len == st.doc_lens[id]
        tf == CounterGet(st.doc_counts[id], term)
        pd == IF len > 0 THEN Frac(tf, len) ELSE Zero
        pcol == IF term \in DOMAIN st.collection_probs THEN st.collection_probs[term] ELSE Zero
        num == pd.num * pcol.den + pcol.num * pd.den
        den == pd.den * pcol.den
    IN  IF num = 0 THEN LnFloor ELSE LnMilli(num) - LnMilli(den)

\* lines 38-47: ln(max((1 - lam) * tf / doc_len + lam * P(term | collection), 1e-12))
LMTerm(st, id, term) ==
    LET len == st.doc_lens[id]
        tf == CounterGet(st.doc_counts[id], term)
        pd == IF len > 0 THEN Frac(tf, len) ELSE Zero
        pcol == IF term \in DOMAIN st.collection_probs THEN st.collection_probs[term] ELSE Zero
        num == (st.lam.den - st.lam.num) * pd.num * pcol.den + st.lam.num * pcol.num * pd.den
        den == st.lam.den * pd.den * pcol.den
    IN  IF num = 0 THEN LnFloor ELSE LnMilli(num) - LnMilli(den)

LMSearch(st, corp, query, tk) ==
    LET qts == Preprocess(query)
        scores == [i \in 1..Len(corp) |->
                      Pair(corp[i].id,
                           SumSeq([j \in 1..Len(qts) |-> LMTerm(st, corp[i].id, qts[j])]))]
    IN  Slice(SortByScore(scores), tk)

\* the object after a search: the Counter lookups of line 38
LMAfter(st, query) ==
    [st EXCEPT !.doc_counts =
        [id \in DOMAIN @ |->
            IF st.doc_lens[id] > 0 THEN AfterLookups(@[id], Preprocess(query)) ELSE @[id]]]

(***************************************************************************)
(* VectorSpaceModel, built with the vocabulary of the collection.          *)
(***************************************************************************)
\* _compute_tf_idf_vector
TfIdfVector(vocab, idf, tokens) ==
    [w \in vocab |->
        IF Count(tokens, w) > 0
        THEN ((1000 + Log10Milli(Count(tokens, w))) * idf[w]) \div 1000
        ELSE 0]

Norm(vec) == ISqrt(SumOver(DOMAIN vec, [w \in DOMAIN vec |-> vec[w] * vec[w]]))

VectorSpaceModel(corp) ==
    LET vocab == Terms(corp)
        df(w) == Cardinality({ id \in DocIds(corp) : w \in Range(TokensOf(corp, id)) })
        idf == [w \in vocab |-> Log10Milli(Len(corp)) - Log10Milli(IF df(w) > 0 THEN df(w) ELSE 1)]
        vecs == [id \in DocIds(corp) |-> TfIdfVector(vocab, idf, TokensOf(corp, id))]
    IN  [vocab |-> vocab, N |-> Len(corp), idf |-> idf, doc_vectors |-> vecs,
         doc_norms |-> [id \in DocIds(corp) |-> Norm(vecs[id])]]

\* lines 44-61: the cosine of the query vector and each document vector
VSMSearch(st, corp, query, tk) ==
    LET qvec == TfIdfVector(st.vocab, st.idf, Preprocess(query))
        qnorm == Norm(qvec)
        cos(id) ==
            IF qnorm > 0 /\ st.doc_norms[id] > 0
            THEN (SumOver(st.vocab, [w \in st.vocab |-> qvec[w] * st.doc_vectors[id][w]]) * 1000)
                     \div (qnorm * st.doc_norms[id])
            ELSE 0
        scores == [i \in 1..Len(corp) |-> Pair(corp[i].id, cos(corp[i].id))]
    IN  Slice(SortByScore(scores), tk)

(***************************************************************************)
(* BooleanModel.                                                           *)
(***************************************************************************)
BoolToken(kind, value) == [kind |-> kind, value |-> value]

Upper(p) ==
    CASE p \in {"and", "AND"} -> "AND"
      [] p \in {"or", "OR"} -> "OR"
      [] p \in {"not", "NOT"} -> "NOT"
      [] OTHER -> p

\* lines 46-55: the terms of one part, joined with AND
TermTokens(norm) ==
    [i \in 1..(2 * Len(norm) - 1) |->
        IF i % 2 = 1 THEN BoolToken("TERM", norm[(i + 1) \div 2]) ELSE BoolToken("AND", "")]

RECURSIVE TokenizeBooleanQuery(_)
TokenizeBooleanQuery(query) ==
    IF query = <<>> THEN <<>>
    ELSE LET p == Head(query)
             rest == TokenizeBooleanQuery(Tail(query))
         IN  CASE p = "(" -> <<BoolToken("LPAREN", "")>> \o rest
               [] p = ")" -> <<BoolToken("RPAREN", "")>> \o rest
               [] p \notin {"(", ")"} /\ Upper(p) \in {"AND", "OR", "NOT"} ->
                      <<BoolToken(Upper(p), "")>> \o rest
               [] OTHER -> TermTokens(Preprocess(<<p>>)) \o rest

\* lines 120-124: AND between two consecutive TERMs
RECURSIVE Expand(_, _)
Expand(tokens, i) ==
    IF i > Len(tokens) THEN <<>>
    ELSE (IF i > 1 /\ tokens[i - 1].kind = "TERM" /\ tokens[i].kind = "TERM"
          THEN <<BoolToken("AND", "")>> ELSE <<>>)
         \o <<tokens[i]>> \o Expand(tokens, i + 1)

Prec(kind) == CASE kind = "NOT" -> 3 [] kind = "AND" -> 2 [] kind = "OR" -> 1

IsOp(kind) == kind \in {"AND", "OR", "NOT"}

\* line 69-70: pop the operators that bind at least as tightly
RECURSIVE PopOps(_, _, _)
PopOps(out, stack, kind) ==
    IF stack # <<>> /\ IsOp(stack[Len(stack)].kind) /\ Prec(stack[Len(stack)].kind) >= Prec(kind)
    THEN PopOps(Append(out, stack[Len(stack)]), SubSeq(stack, 1, Len(stack) - 1), kind)
    ELSE [out |-> out, stack |-> stack]

\* lines 75-78: pop down to the nearest LPAREN, which is dropped
RECURSIVE PopToParen(_, _)
PopToParen(out, stack) ==
    IF stack # <<>> /\ stack[Len(stack)].kind # "LPAREN"
    THEN PopToParen(Append(out, stack[Len(stack)]), SubSeq(stack, 1, Len(stack) - 1))
    ELSE [out |-> out,
          stack |-> IF stack # <<>> THEN SubSeq(stack, 1, Len(stack) - 1) ELSE stack]

\* lines 79-80
RECURSIVE PopAll(_, _)
PopAll(out, stack) ==
    IF stack = <<>> THEN out
    ELSE PopAll(Append(out, stack[Len(stack)]), SubSeq(stack, 1, Len(stack) - 1))

RECURSIVE ToRpnFrom(_, _, _)
ToRpnFrom(tokens, out, stack) ==
    IF tokens = <<>> THEN PopAll(out, stack)
    ELSE LET tok == Head(tokens)
         IN  CASE tok.kind = "TERM" -> ToRpnFrom(Tail(tokens), Append(out, tok), stack)
               [] IsOp(tok.kind) ->
                      LET popped == PopOps(out, stack, tok.kind)
                      IN  ToRpnFrom(Tail(tokens), popped.out, Append(popped.stack, tok))
               [] tok.kind = "LPAREN" -> ToRpnFrom(Tail(tokens), out, Append(stack, tok))
               [] tok.kind = "RPAREN" ->
                      LET popped == PopToParen(out, stack)
                      IN  ToRpnFrom(Tail(tokens), popped.out, popped.stack)

ToRpn(tokens) == ToRpnFrom(tokens, <<>>, <<>>)

\* a missing operand taken as true
PopOrTrue(stack) ==
    IF stack # <<>>
    THEN [val |-> stack[Len(stack)], stack |-> SubSeq(stack, 1, Len(stack) - 1)]
    ELSE [val |-> TRUE, stack |-> stack]

\* stack.pop() if stack else False
PopOrFalse(stack) ==
    IF stack # <<>>
    THEN [val |-> stack[Len(stack)], stack |-> SubSeq(stack, 1, Len(stack) - 1)]
    ELSE [val |-> FALSE, stack |-> stack]

RECURSIVE EvalRpnFrom(_, _, _)
EvalRpnFrom(rpn, docSet, stack) ==
    IF rpn = <<>> THEN (IF stack # <<>> THEN stack[Len(stack)] ELSE FALSE)
    ELSE LET tok == Head(rpn)
         IN  CASE tok.kind = "TERM" ->
                      EvalRpnFrom(Tail(rpn), docSet, Append(stack, tok.value \in docSet))
               [] tok.kind = "NOT" ->
                      LET a == PopOrFalse(stack)
                      IN  EvalRpnFrom(Tail(rpn), docSet, Append(a.stack, ~a.val))
               [] tok.kind \in {"AND", "OR"} ->
                      LET b == PopOrFalse(stack)
                          a == PopOrFalse(b.stack)
                      IN  EvalRpnFrom(Tail(rpn), docSet,
                                      Append(a.stack, IF tok.kind = "AND"
                                                      THEN a.val /\ b.val
                                                      ELSE a.val \/ b.val))
               [] OTHER -> EvalRpnFrom(Tail(rpn), docSet, stack)

EvalRpn(rpn, docTerms) == EvalRpnFrom(rpn, Range(docTerms), <<>>)

\* the results left in the order of the collection
SortByIdKeep(pairs) == pairs

\* results.sort(key=doc_id)
SortById(pairs) ==
    LET ranks == { IdRank(pairs[i].id) : i \in 1..Len(pairs) }
        byRank == [r \in ranks |-> CHOOSE x \in Range(pairs) : IdRank(x.id) = r]
        nth[n \in 0..Len(pairs)] ==
            IF n = 0 THEN 0 ELSE CHOOSE r \in ranks : r > nth[n - 1] /\
                                     \A s \in ranks : s > nth[n - 1] => r <= s
    IN  [n \in 1..Len(pairs) |-> byRank[nth[n]]]

BooleanSearch(corp, query, tk) ==
    LET tokens == TokenizeBooleanQuery(query)
        rpn == ToRpn(Expand(tokens, 1))
        matching == SelectSeq(corp, LAMBDA d : EvalRpn(rpn, d.tokens))
        results == [i \in 1..Len(matching) |-> Pair(matching[i].id, 1000)]
    IN  IF tokens = <<>> THEN <<>> ELSE Slice(SortById(results), tk)

(***************************************************************************)
(* The four models built from one collection and searched any number of    *)
(* times, in any order, by a caller that moves from query to query.        *)
(***************************************************************************)
Called(model, res) == [model |-> model, result |-> res]

InitSearch ==
    /\ JudgeIdle
    /\ PureIdle
    /\ EvalIdle
    /\ BenchIdle
    /\ corpus \in Corpora
    /\ bm25 = BM25Model(corpus)
    /\ lm = LanguageModelJM(corpus, Lam)
    /\ vsm = VectorSpaceModel(corpus)
    /\ qArg = <<>>
    /\ kArg = NoTopK
    /\ call = NoSearch

SearchBM25 ==
    /\ call' = Called("bm25", BM25Search(bm25, corpus, qArg, kArg))
    /\ bm25' = BM25After(bm25, qArg)
    /\ UNCHANGED <<notSearch, corpus, lm, vsm, qArg, kArg>>

SearchLM ==
    /\ call' = Called("lm", LMSearch(lm, corpus, qArg, kArg))
    /\ lm' = LMAfter(lm, qArg)
    /\ UNCHANGED <<notSearch, corpus, bm25, vsm, qArg, kArg>>

SearchVSM ==
    /\ call' = Called("vsm", VSMSearch(vsm, corpus, qArg, kArg))
    /\ UNCHANGED <<notSearch, corpus, bm25, lm, vsm, qArg, kArg>>

SearchBoolean ==
    /\ call' = Called("boolean", BooleanSearch(corpus, qArg, kArg))
    /\ UNCHANGED <<notSearch, corpus, bm25, lm, vsm, qArg, kArg>>

\* the caller goes on to another query: one more part, the oldest one dropped
\* from a query of full length
NextQuery ==
    /\ \E p \in QueryParts :
          qArg' = IF Len(qArg) < MaxQueryParts THEN Append(qArg, p)
                   ELSE Append(Tail(qArg), p)
    /\ call' = NoSearch
    /\ UNCHANGED <<notSearch, corpus, bm25, lm, vsm, kArg>>

\* the caller goes on to another top_k
NextTopK ==
    /\ \E tk \in TopKs \ {kArg} : kArg' = tk
    /\ call' = NoSearch
    /\ UNCHANGED <<notSearch, corpus, bm25, lm, vsm, qArg>>

NextSearch ==
    SearchBM25 \/ SearchLM \/ SearchVSM \/ SearchBoolean \/ NextQuery \/ NextTopK

SpecSearch == InitSearch /\ [][NextSearch]_vars

(***************************************************************************)
(* BooleanModel.search applied on its own to one document: every query of  *)
(* a few parts over a stopword, two terms, the operators and parentheses,  *)
(* and some longer queries.                                                *)
(***************************************************************************)
BoolParts == {"a", "b", "c", "AND", "OR", "NOT", "(", ")"}

LongQueries ==
    { <<"(", "a", "OR", "c", ")", "AND", "NOT", "b">>,
      <<"(", "b", "OR", "c", ")", "AND", "NOT", "b">>,
      <<"b", "OR", "b", ")", "AND", "c">>,
      <<"b", "OR", "b", "AND", "c">> }

BoolDocs == { <<>>, <<"b">>, <<"c">>, <<"b", "c">>, <<"a", "b">>, <<"a", "c">> }

BoolArgs == [query : SeqsUpTo(BoolParts, MaxBoolParts) \cup LongQueries, doc : BoolDocs]

\* whether search(query) over the collection {d1: docTokens} returns d1
MatchesDoc(q, docTokens) == BooleanSearch(<<Doc("d1", docTokens)>>, q, NoTopK) # <<>>

InitBoolean ==
    /\ JudgeIdle
    /\ EvalIdle
    /\ BenchIdle
    /\ SearchIdle
    /\ arg \in BoolArgs
    /\ result = NoResult

BooleanCall ==
    /\ result = NoResult
    /\ result' = Returned(MatchesDoc(arg.query, arg.doc))
    /\ UNCHANGED <<notPure, arg>>

NextBoolean == BooleanCall

SpecBoolean == InitBoolean /\ [][NextBoolean]_vars

(***************************************************************************)
(* BM25Model._idf on its own: a model of N documents of which n hold the   *)
(* term t (n = 0: the term is not a key of doc_freqs).                     *)
(***************************************************************************)
IdfArgs == { a \in [N : 0..MaxDocs, n : 0..MaxDocs] : a.n <= a.N }

IdfState(N, n) == [N |-> N, doc_freqs |-> IF n = 0 THEN EmptyMap ELSE Put(EmptyMap, "t", n)]

InitIdf ==
    /\ JudgeIdle
    /\ EvalIdle
    /\ BenchIdle
    /\ SearchIdle
    /\ arg \in IdfArgs
    /\ result = NoResult

IdfCall ==
    /\ result = NoResult
    /\ result' = Returned(Idf(IdfState(arg.N, arg.n), "t"))
    /\ UNCHANGED <<notPure, arg>>

NextIdf == IdfCall

SpecIdf == InitIdf /\ [][NextIdf]_vars

(***************************************************************************)
(* LanguageModelJM built with a given lam, and one search without top_k.   *)
(***************************************************************************)
Lams == {Frac(0, 1), Frac(1, 4), Frac(1, 2), Frac(3, 4), Frac(1, 1)}

LMCorpora ==
    Corpora \cup
    { <<Doc("d1", <<"cat">>), Doc("d2", <<"dog">>), Doc("d10", <<"dog", "emu", "emu">>)>> }

LMArgs == [corp : LMCorpora, lam : Lams, query : SeqsUpTo(QueryParts, MaxQueryParts)]

InitLM ==
    /\ JudgeIdle
    /\ EvalIdle
    /\ BenchIdle
    /\ SearchIdle
    /\ arg \in LMArgs
    /\ result = NoResult

LMCall ==
    /\ result = NoResult
    /\ result' = Returned(LMSearch(LanguageModelJM(arg.corp, arg.lam), arg.corp, arg.query, NoTopK))
    /\ UNCHANGED <<notPure, arg>>

NextLM == LMCall

SpecLM == InitLM /\ [][NextLM]_vars

(***************************************************************************)
(* Properties of LLMJudge.score.  In Spec and SpecText every step is one  *)
(* score call, recorded in last'; the state before the step is the state   *)
(* the call found.                                                         *)
(***************************************************************************)
Computed(c) == c.path \in {"gemini", "groq", "heuristic"} /\ c.outcome = "return"

Holds(c, key) == c.kind = "dict" /\ key \in DOMAIN c.m

\* C1: a score call whose key is already cached invokes no backend (remote
\* client or heuristic), writes neither the cache nor its file and returns the
\* cached label; and a call that computed a label leaves it cached under its
\* key, so that a second identical call is such a hit and returns the same
\* label: the backend is invoked once for the two calls.
C1_SecondCallIsHit ==
    [][ /\ Holds(cache, last'.key) =>
            /\ last'.path = "hit"
            /\ last'.calls = 0
            /\ rc' = NoCall
            /\ last'.outcome = "return"
            /\ last'.ret = cache.m[last'.key]
            /\ cache' = cache
            /\ disk' = disk
        /\ Computed(last') =>
            /\ last'.calls = 1
            /\ Holds(cache', last'.key)
            /\ cache'.m[last'.key] = last'.ret
      ]_vars

\* C1 witness: a hit on a key this judge computed and stored itself (the file
\* was missing or empty, and the only cached key went through a store).
C1_Witness ==
    /\ last.path = "hit"
    /\ loggedBackend
    /\ Cardinality(DOMAIN cache.m) = 1
    /\ disk = cache

\* C2: after every score call that computed a new label and returned, the
\* in-memory cache maps the call's key to the returned label and the cache
\* file holds exactly the in-memory cache: the write is part of that call.
C2_StoredAndPersisted ==
    Computed(last) =>
        /\ Holds(cache, last.key)
        /\ cache.m[last.key] = last.ret
        /\ disk.kind = "dict"
        /\ disk.m = cache.m

\* C2 witness: a computed call that rewrote a file of two entries.
C2_Witness ==
    /\ Computed(last)
    /\ disk.kind = "dict"
    /\ Cardinality(DOMAIN disk.m) = 2
    /\ disk.m[last.key] = last.ret

C4_ReturnsLabel == last.outcome = "return" => last.ret \in Labels

RemoteConfigured == Normalize(cfgBackend) \in {"gemini", "groq"}

\* the answer of the credentials probe of the configured remote backend
ConfiguredProbe(c) == IF Normalize(cfgBackend) = "gemini" THEN c.gp ELSE c.qp

\* C6: with gemini or groq configured, a score call whose key is cached
\* returns the cached label without error; one whose key is not cached and
\* that finds the credentials absent raises the configuration error, calls no
\* backend (neither remote nor heuristic) and leaves cache and file as they
\* were; the configuration error is raised in no other case.
C6_ConfigErrorIffMiss ==
    [][ RemoteConfigured =>
          /\ Holds(cache, last'.key) =>
                /\ last'.outcome = "return"
                /\ last'.ret = cache.m[last'.key]
          /\ (~Holds(cache, last'.key) /\ ConfiguredProbe(last') = "no") =>
                /\ last'.outcome = "ConfigError"
                /\ last'.path = Normalize(cfgBackend)
                /\ last'.calls = 0
                /\ rc' = NoCall
                /\ cache' = cache
                /\ disk' = disk
          /\ last'.outcome = "ConfigError" =>
                /\ ~Holds(cache, last'.key)
                /\ ConfiguredProbe(last') = "no"
      ]_vars

\* C6 witness: groq configured without credentials, the key asked for not
\* cached while another one is.
C6_Witness ==
    /\ cfgBackend = "GROQ"
    /\ last.outcome = "ConfigError"
    /\ last.qp = "no"
    /\ Cardinality(DOMAIN cache.m) = 1
    /\ disk = cache

C10_MalformedFileIsEmptyCache ==
    /\ constructed = "ok"
    /\ last.outcome # "TypeError"

(***************************************************************************)
(* Properties of the remote clients.  In SpecClient rc is the record of    *)
(* the last call_gemini or call_groq, rc.prev the time the call_gemini     *)
(* before it sent its last request.                                        *)
(***************************************************************************)
\* C8: for gemini and groq alike, a rate-limit error reaches the caller only
\* when the retry budget is used up, after max_retries + 1 requests (one
\* request when the budget is not positive).
C8_RetryEachBackend ==
    (rc.fn \in {"gemini", "groq"} /\ rc.res = "RateLimit") =>
        rc.requests = Max(env.maxRetries, 0) + 1

\* C9: with a minimum interval configured, a call_gemini that sends a request
\* sends it no sooner than that interval after the previous one did, whether
\* the previous call returned or raised.
C9_MinInterval ==
    (rc.fn = "gemini" /\ rc.minDelay > 0 /\ rc.requests > 0 /\ rc.prev # NoTime) =>
        rc.start >= rc.prev + rc.minDelay

(***************************************************************************)
(* Properties of LLMJudge._heuristic_score (SpecHeuristic).                *)
(***************************************************************************)
\* the words of a text that have at least three characters, in lower case
LongWords(text) ==
    SelectSeq([i \in 1..Len(text) |-> Lower(text[i])], LAMBDA w : WordLen(w) >= 3)

RECURSIVE CountIn(_, _)
CountIn(ws, S) ==
    IF ws = <<>> THEN 0
    ELSE (IF Head(ws) \in S THEN 1 ELSE 0) + CountIn(Tail(ws), S)

\* C11: the heuristic returns 0 when the query has no token of length >= 3;
\* otherwise, with ratio = (query tokens of length >= 3 found among the
\* document's tokens of length >= 3) / (query tokens of length >= 3), it
\* returns 2 if ratio >= 0.6, 1 if 0.25 <= ratio < 0.6, and 0 below.
C11_HeuristicLabel ==
    result.done =>
        LET qs == LongWords(arg.query)
            hits == CountIn(qs, Range(LongWords(arg.doc)))
        IN  result.val =
              IF Len(qs) = 0 THEN 0
              ELSE IF 5 * hits >= 3 * Len(qs) THEN 2
              ELSE IF 4 * hits >= Len(qs) THEN 1
              ELSE 0

\* C11 witness: five long query tokens, three of them in the document: the
\* ratio is exactly 0.6 and the label 2.
C11_Witness ==
    /\ result.done
    /\ Len(LongWords(arg.query)) = 5
    /\ CountIn(LongWords(arg.query), Range(LongWords(arg.doc))) = 3
    /\ result.val = 2

(***************************************************************************)
(* Properties of dcg_at_k and ndcg_at_k (SpecDcg).                         *)
(***************************************************************************)
\* the labels cut or zero-padded to k entries, the first one counted whole and
\* the one at position i >= 2 divided by log2(i + shift)
DiscountedSum(rels, k, shift) ==
    LET lab(i) == IF i <= Len(rels) THEN rels[i] ELSE 0
        sum[i \in 0..k] ==
            IF i = 0 THEN 0
            ELSE sum[i - 1] + lab(i) * (IF i = 1 THEN Scale ELSE InvLog2(i + shift))
    IN  sum[k]

FracEq(a, b) == a.num * b.den = b.num * a.den

AllZero(rels) == \A i \in 1..Len(rels) : rels[i] = 0

\* C16, as claimed: dcg_at_k cuts or zero-pads the labels to k entries and
\* returns labels[0] + the sum over i = 2..k of labels[i-1] / log2(i); 0 when
\* k = 0.
C16_DiscountLogOfPosition ==
    (result.done /\ arg.fn = "dcg_at_k") =>
        result.val = DiscountedSum(arg.rels, arg.k, 0)

\* C16, amended: the same with the label at 1-based position i >= 2 divided by
\* log2(i + 1).
C16_DiscountLogOfPositionPlusOne ==
    (result.done /\ arg.fn = "dcg_at_k") =>
        result.val = DiscountedSum(arg.rels, arg.k, 1)

\* C16 witness: three labels cut to two, 1 + 2/log2(3).
C16_Witness ==
    /\ result.done
    /\ arg.fn = "dcg_at_k"
    /\ arg.rels = <<1, 2, 1>>
    /\ arg.k = 2
    /\ result.val = Scale + 2 * InvLog2(3)

\* C17: ndcg_at_k(labels, k) is dcg_at_k(labels, k) divided by dcg_at_k of all
\* of labels sorted descending, or 0 if that ideal DCG is 0.
C17_IdealOverAllLabels ==
    (result.done /\ arg.fn = "ndcg_at_k") =>
        LET idcg == DcgAtK(SortDesc(arg.rels), arg.k)
        IN  FracEq(result.val,
                   IF idcg > 0 THEN Frac(DcgAtK(arg.rels, arg.k), idcg) ELSE Zero)

\* C18: on an all-zero label list (the empty one included) and any k >= 0,
\* dcg_at_k returns 0, and ndcg_at_k and the nDCG of evaluate_models are 0,
\* computed without dividing by zero.
C18_AllZeroGivesZero ==
    (result.done /\ AllZero(arg.rels)) =>
        IF arg.fn = "dcg_at_k" THEN result.val = 0
        ELSE result.val.den > 0 /\ result.val.num = 0

\* C18 witness: ndcg_at_k of two zeros padded to three.
C18_Witness ==
    /\ result.done
    /\ arg.fn = "ndcg_at_k"
    /\ arg.rels = <<0, 0>>
    /\ arg.k = 3

(***************************************************************************)
(* Properties of evaluate_models (SpecEval).                               *)
(***************************************************************************)
IsPrefix(s, t) == Len(s) <= Len(t) /\ \A i \in 1..Len(s) : s[i] = t[i]

\* C12: judge.score is called once per document of the collection, in the
\* collection's order, whatever the number of models; no search is run before
\* all of these calls are done; the models are searched one at a time in
\* registration order; when evaluate_models returns, every document was judged
\* exactly once and every model searched exactly once.
C12_JudgeOncePerDocument ==
    /\ IsPrefix(judged, CorpusIds)
    /\ IsPrefix(searched, models)
    /\ searched # <<>> => judged = CorpusIds
    /\ pc = "done" => (judged = CorpusIds /\ searched = models)

\* C12 witness: evaluate_models returned with no model to evaluate.
C12_Witness ==
    /\ pc = "done"
    /\ models = <<>>
    /\ judged = CorpusIds
    /\ DOMAIN relMap = Range(CorpusIds)

\* the judge label of a ranked id, 0 for an id the judge's map does not hold
LabelOf(id) == IF id \in DOMAIN relMap THEN relMap[id] ELSE 0

\* C15: the nDCG of the model searched last is the DCG@top_k of the labels of
\* the documents it returned, in returned order, over the DCG@top_k of all the
\* collection's labels sorted descending, and 0 when that ideal DCG is 0.
C15_ModelNdcg ==
    searched # <<>> =>
        LET m == searched[Len(searched)]
            dcg == DiscountedSum([i \in 1..Len(ranked) |-> LabelOf(ranked[i])], topK, 1)
            idcg == DiscountedSum(SortDesc([i \in 1..Len(CorpusIds) |-> relMap[CorpusIds[i]]]),
                                  topK, 1)
        IN  /\ m \in DOMAIN ndcgs
            /\ ndcgs[m].den > 0
            /\ FracEq(ndcgs[m], IF idcg = 0 THEN Zero ELSE Frac(dcg, idcg))

\* C15 witness: labels {d1: 2, d2: 1, d3: 0}, returned order d2, d1, d3 and
\* top_k = 3 give (1 + 2/log2(3)) / (2 + 1/log2(3)).
C15_Witness ==
    /\ topK = 3
    /\ relMap = [d \in {"d1", "d2", "d3"} |-> CASE d = "d1" -> 2 [] d = "d2" -> 1 [] d = "d3" -> 0]
    /\ ranked = <<"d2", "d1", "d3">>
    /\ searched = <<"A">>
    /\ ndcgs["A"] = Frac(Scale + 2 * InvLog2(3), 2 * Scale + InvLog2(3))

(***************************************************************************)
(* Properties of benchmark (SpecBench).                                    *)
(***************************************************************************)
\* C13: once evaluate_models has raised for a query, no later query is
\* evaluated, the report file is not written, the remediation guidance has
\* been printed and the run ends with a non-zero exit status.
C13_AbortOnRaise ==
    raisedAt # 0 =>
        /\ Len(evaluated) = raisedAt
        /\ Len(perQuery) = raisedAt - 1
        /\ report = NoReport
        /\ printed
        /\ exitStatus # NoExit /\ exitStatus # 0
        /\ bpc = "exited"

\* C13 witness: the second query raised after the first one succeeded, with a
\* report path given.
C13_Witness ==
    /\ raisedAt = 2
    /\ Len(perQuery) = 1
    /\ outputPath = ReportPath
    /\ report = NoReport
    /\ exitStatus = 1

\* C14: a written report has one per-query entry per input query, in input
\* order, and its summary maps every registered model to the mean of the
\* model's per-query nDCG values, 0 for every model when there is no query.
C14_ReportAndMeans ==
    report.written =>
        /\ report.queries = queries
        /\ Len(report.per_query) = Len(queries)
        /\ \A i \in 1..Len(queries) : report.per_query[i].query = queries[i]
        /\ DOMAIN report.summary = Range(modelsDict)
        /\ \A m \in Range(modelsDict) :
              LET total == SumSeq([i \in 1..Len(queries) |-> report.per_query[i].ndcg[m]])
              IN  /\ report.summary[m].den > 0
                  /\ IF queries = <<>>
                     THEN report.summary[m].num = 0
                     ELSE FracEq(report.summary[m], Frac(total, Len(queries)))
        /\ summary = report.summary

\* C14 witness: per-query values 0.8 and 0.6 are reported with the mean 0.7.
C14_Witness ==
    /\ report.written
    /\ Len(queries) = 2
    /\ "A" \in DOMAIN report.summary
    /\ report.per_query[1].ndcg["A"] = 8
    /\ report.per_query[2].ndcg["A"] = 6
    /\ FracEq(report.summary["A"], Frac(7, 1))

(***************************************************************************)
(* Properties of the four search models (SpecSearch).                      *)
(***************************************************************************)
\* what a model returns for a query and a top_k
SearchOf(model, b, l, v, q, tk) ==
    CASE model = "bm25" -> BM25Search(b, corpus, q, tk)
      [] model = "lm" -> LMSearch(l, corpus, q, tk)
      [] model = "vsm" -> VSMSearch(v, corpus, q, tk)
      [] model = "boolean" -> BooleanSearch(corpus, q, tk)

\* C19: for any integer top_k given, search returns at most top_k pairs, with
\* distinct document ids, in non-increasing score order, and they are the first
\* top_k elements of what search returns without top_k.
C19_AtMostTopK ==
    (call # NoSearch /\ kArg.given) =>
        LET res == call.result
            full == SearchOf(call.model, bm25, lm, vsm, qArg, NoTopK)
        IN  /\ Len(res) <= kArg.k
            /\ \A i, j \in 1..Len(res) : i # j => res[i].id # res[j].id
            /\ \A i \in 1..(Len(res) - 1) : res[i].score >= res[i + 1].score
            /\ Len(res) = Min(kArg.k, Len(full))
            /\ \A i \in 1..Len(res) : res[i] = full[i]

\* C20: no search changes the collection or a model object: after any sequence
\* of searches the BM25, language and vector space models are as they were
\* right after construction, also when a query term is absent from the
\* vocabulary, and the last search returned what a freshly built model returns
\* for the same query and top_k.
C20_SearchIsReadOnly ==
    /\ [][corpus' = corpus /\ bm25' = bm25 /\ lm' = lm /\ vsm' = vsm]_vars
    /\ [](/\ bm25 = BM25Model(corpus)
          /\ lm = LanguageModelJM(corpus, Lam)
          /\ vsm = VectorSpaceModel(corpus)
          /\ call # NoSearch =>
                 call.result = SearchOf(call.model, BM25Model(corpus), LanguageModelJM(corpus, Lam),
                                        VectorSpaceModel(corpus), qArg, kArg))

\* C20 witness: the language model searched a collection of three documents
\* for a term absent from the vocabulary and a term some documents lack.
C20_Witness ==
    /\ call # NoSearch
    /\ call.model = "lm"
    /\ qArg = <<"emu", "cat">>
    /\ Len(corpus) = 3
    /\ Len(call.result) = 3
    /\ lm = LanguageModelJM(corpus, Lam)

\* the parts of a query that are terms of the collection or unknown words
PlainTerms == {"cat", "dog", "emu"}

\* C21: without top_k, BooleanModel.search returns exactly the documents that
\* satisfy the query (for a query of plain terms: the documents holding all of
\* them; for NOT t: the documents lacking t), each once with score 1.0, in
\* ascending string order of the document ids, and nothing for a query that
\* leaves no token.
C21_BooleanResult ==
    (call # NoSearch /\ call.model = "boolean" /\ ~kArg.given) =>
        LET tokens == TokenizeBooleanQuery(qArg)
            rpn == ToRpn(Expand(tokens, 1))
            sat == { d \in Range(corpus) : EvalRpn(rpn, d.tokens) }
            res == call.result
            ids == { res[i].id : i \in 1..Len(res) }
        IN  /\ ids = IF tokens = <<>> THEN {} ELSE { d.id : d \in sat }
            /\ Len(res) = Cardinality(ids)
            /\ \A i \in 1..Len(res) : res[i].score = 1000
            /\ \A i, j \in 1..Len(res) : i < j => IdRank(res[i].id) < IdRank(res[j].id)
            /\ (qArg # <<>> /\ Range(qArg) \subseteq PlainTerms) =>
                   ids = { d.id : d \in { e \in Range(corpus) : Range(qArg) \subseteq Range(e.tokens) } }
            /\ (Len(qArg) = 2 /\ qArg[1] = "NOT" /\ qArg[2] \in PlainTerms) =>
                   ids = { d.id : d \in { e \in Range(corpus) : qArg[2] \notin Range(e.tokens) } }

\* C21 witness: "dog" matches d2 and d10 of a collection stored in the order
\* d2, d10, d1; the result lists d10 before d2 and leaves d1 out.
C21_Witness ==
    /\ call # NoSearch
    /\ call.model = "boolean"
    /\ qArg = <<"dog">>
    /\ ~kArg.given
    /\ Len(corpus) = 3
    /\ call.result = <<Pair("d10", 1000), Pair("d2", 1000)>>

(***************************************************************************)
(* Properties of BooleanModel.search on one document (SpecBoolean).        *)
(***************************************************************************)
\* C22: on a document whose token set is exactly {a, b}, "a AND b" matches,
\* "a AND c" does not, "a OR c" matches, "NOT c" matches and
\* "(a OR c) AND NOT b" does not.
C22_Examples ==
    (result.done /\ Range(arg.doc) = {"a", "b"}) =>
        /\ arg.query = <<"a", "AND", "b">> => result.val
        /\ arg.query = <<"a", "AND", "c">> => ~result.val
        /\ arg.query = <<"a", "OR", "c">> => result.val
        /\ arg.query = <<"NOT", "c">> => result.val
        /\ arg.query = <<"(", "a", "OR", "c", ")", "AND", "NOT", "b">> => ~result.val

BoolTerms == {"b", "c"}

\* C23: for every sequence of terms, operators and parentheses the search
\* returns a match or no match; a binary operator that finds one operand or
\* none takes the missing ones as false, a NOT that finds none negates false,
\* and a query that leaves no value (parentheses only) matches nothing.
C23_UnderflowIsFalse ==
    result.done =>
        LET q == arg.query
            has(t) == t \in Range(arg.doc)
        IN  /\ result.val \in BOOLEAN
            /\ q \in {<<"AND">>, <<"OR">>} => ~result.val
            /\ q = <<"NOT">> => result.val
            /\ (Len(q) = 2 /\ q[1] \in BoolTerms /\ q[2] = "AND") => ~result.val
            /\ (Len(q) = 2 /\ q[1] = "AND" /\ q[2] \in BoolTerms) => ~result.val
            /\ (Len(q) = 2 /\ q[1] \in BoolTerms /\ q[2] = "OR") => result.val = has(q[1])
            /\ (Len(q) = 2 /\ q[1] = "OR" /\ q[2] \in BoolTerms) => result.val = has(q[2])
            /\ (Len(q) = 3 /\ q[1] = "(" /\ q[2] \in {"AND", "OR"} /\ q[3] = ")") => ~result.val
            /\ Range(q) \subseteq {"(", ")"} => ~result.val

\* C23 witness: a dangling AND after a term the document holds.
C23_Witness ==
    /\ result.done
    /\ arg.query = <<"b", "AND">>
    /\ arg.doc = <<"b", "c">>
    /\ result.val = FALSE

(***************************************************************************)
(* The standard reading of a query: expr ::= conj (OR conj)*,              *)
(* conj ::= neg (AND neg)*, neg ::= NOT neg | term | "(" expr ")".         *)
(* A parse gives [ok, val, pos]: whether a phrase starts at the position,  *)
(* its value on the document, and the position after it.                  *)
(***************************************************************************)
NoParse == [ok |-> FALSE, val |-> FALSE, pos |-> 0]
Parsed(val, pos) == [ok |-> TRUE, val |-> val, pos |-> pos]

RECURSIVE ParseExpr(_, _, _), ParseExprRest(_, _, _), ParseConj(_, _, _),
          ParseConjRest(_, _, _), ParseNeg(_, _, _)
ParseNeg(q, i, docSet) ==
    IF i > Len(q) THEN NoParse
    ELSE CASE q[i] = "NOT" ->
                  LET r == ParseNeg(q, i + 1, docSet)
                  IN  IF r.ok THEN Parsed(~r.val, r.pos) ELSE NoParse
           [] q[i] = "(" ->
                  LET r == ParseExpr(q, i + 1, docSet)
                  IN  IF r.ok /\ r.pos <= Len(q) /\ q[r.pos] = ")"
                      THEN Parsed(r.val, r.pos + 1) ELSE NoParse
           [] q[i] \in BoolTerms -> Parsed(q[i] \in docSet, i + 1)
           [] OTHER -> NoParse

ParseConjRest(q, left, docSet) ==
    IF left.ok /\ left.pos <= Len(q) /\ q[left.pos] = "AND"
    THEN LET r == ParseNeg(q, left.pos + 1, docSet)
         IN  IF r.ok THEN ParseConjRest(q, Parsed(left.val /\ r.val, r.pos), docSet)
             ELSE NoParse
    ELSE left

ParseConj(q, i, docSet) == ParseConjRest(q, ParseNeg(q, i, docSet), docSet)

ParseExprRest(q, left, docSet) ==
    IF left.ok /\ left.pos <= Len(q) /\ q[left.pos] = "OR"
    THEN LET r == ParseConj(q, left.pos + 1, docSet)
         IN  IF r.ok THEN ParseExprRest(q, Parsed(left.val \/ r.val, r.pos), docSet)
             ELSE NoParse
    ELSE left

ParseExpr(q, i, docSet) == ParseExprRest(q, ParseConj(q, i, docSet), docSet)

\* the query is a complete expression
Complete(q) ==
    LET r == ParseExpr(q, 1, {}) IN r.ok /\ r.pos = Len(q) + 1

Meaning(q, docTokens) == ParseExpr(q, 1, Range(docTokens)).val

\* C26: on every complete query over terms, AND, OR, prefix NOT and balanced
\* parentheses the search matches a document exactly when the expression is
\* true of it under NOT > AND > OR, stacked negations included.
C26_StandardSemantics ==
    (result.done /\ Complete(arg.query)) => result.val = Meaning(arg.query, arg.doc)

\* the query without its i-th part
Without(q, i) == SubSeq(q, 1, i - 1) \o SubSeq(q, i + 1, Len(q))

\* C27: a ")" put between two parts of a query that holds no "(" leaves the
\* match of every document as it is without that parenthesis.
C27_ExcessParenIgnored ==
    result.done =>
        \A i \in 2..(Len(arg.query) - 1) :
            (arg.query[i] = ")" /\ Range(Without(arg.query, i)) \cap {"(", ")"} = {}) =>
                result.val = MatchesDoc(Without(arg.query, i), arg.doc)

\* C28: for the stopword a and a term t, the queries "a AND t", "t AND a" and
\* "a OR t" match the documents that "t" matches.
C28_StopwordDropped ==
    result.done =>
        \A t \in BoolTerms :
            arg.query \in {<<"a", "AND", t>>, <<t, "AND", "a">>, <<"a", "OR", t>>} =>
                result.val = MatchesDoc(<<t>>, arg.doc)

(***************************************************************************)
(* Properties of BM25Model._idf (SpecIdf); idf values in thousandths.      *)
(***************************************************************************)
\* C24 as stated: the idf of a term that occurs in more than half of the
\* documents is negative.
C24_NegativeAboveHalf ==
    (result.done /\ 2 * arg.n > arg.N) => result.val < 0

\* C24 amended: the idf is ln((2N + 2) / (2n + 1)), above 0 for every
\* 0 <= n <= N, terms of more than half of the documents included, and it
\* does not grow when the document frequency grows.
C24_IdfPositive ==
    result.done =>
        /\ result.val > 0
        /\ arg.n < arg.N => Idf(IdfState(arg.N, arg.n + 1), "t") <= result.val

\* C24 witness: a term of three documents out of four has idf ln(10/7).
C24_Witness ==
    /\ result.done
    /\ arg = [N |-> 4, n |-> 3]
    /\ result.val = 356

(***************************************************************************)
(* Properties of LanguageModelJM.search for a given lam (SpecLM).          *)
(***************************************************************************)
\* the score the search gave to the document
ScoreOf(res, id) == (CHOOSE p \in Range(res) : p.id = id).score

\* the document holds none of the query's tokens
LacksAll(corp, id, query) == Range(Preprocess(query)) \cap Range(TokensOf(corp, id)) = {}

\* ln(max(P(term | collection), 1e-12)), from the collection alone
LnCollection(corp, term) ==
    LET clen == SumOver(DocIds(corp), [id \in DocIds(corp) |-> Len(TokensOf(corp, id))])
        cnt == SumOver(DocIds(corp), [id \in DocIds(corp) |-> Count(TokensOf(corp, id), term)])
    IN  IF cnt = 0 THEN LnFloor ELSE LnMilli(cnt) - LnMilli(clen)

\* C25: every document gets a score and every score is <= 0, whatever lam in
\* [0, 1]; with lam = 1 a document that lacks every query term scores the sum
\* of the logarithms of the terms' collection probabilities, so two such
\* documents score the same.
C25_CollectionOnly ==
    result.done =>
        LET qts == Preprocess(arg.query)
        IN  /\ { p.id : p \in Range(result.val) } = DocIds(arg.corp)
            /\ \A p \in Range(result.val) : p.score <= 0
            /\ arg.lam = Frac(1, 1) =>
                  /\ \A p \in Range(result.val) :
                         LacksAll(arg.corp, p.id, arg.query) =>
                             p.score = SumSeq([j \in 1..Len(qts) |-> LnCollection(arg.corp, qts[j])])
                  /\ \A p1, p2 \in Range(result.val) :
                         (LacksAll(arg.corp, p1.id, arg.query) /\ LacksAll(arg.corp, p2.id, arg.query))
                             => p1.score = p2.score

\* C25 witness: with lam = 1 the documents dog and dog emu emu both lack cat,
\* a term of one token in five, and both score ln(1/5).
C25_Witness ==
    /\ result.done
    /\ arg.lam = Frac(1, 1)
    /\ arg.query = <<"cat">>
    /\ DocIds(arg.corp) = {"d1", "d2", "d10"}
    /\ TokensOf(arg.corp, "d2") = <<"dog">>
    /\ ScoreOf(result.val, "d2") = -1609
    /\ ScoreOf(result.val, "d10") = -1609

(***************************************************************************)
(* The backend behind a cached label, and the one the report names (Spec). *)
(* A cache hit runs no credentials probe, so at a hit the probes may       *)
(* answer anything the configured backend lets them answer.                *)
(***************************************************************************)
\* the backends that can be the active one under the configured backend
ActiveBackends ==
    { ChooseBackend(cfgBackend, gp, qp) :
        gp \in GeminiProbes(cfgBackend), qp \in UNION { GroqProbes(cfgBackend, g) : g \in Probe } }

\* C29: when a score call is served from the cache with the label the call
\* before it computed for the same key, the backend that computed the label
\* is the only one that can be active at the hit.
C29_HitOnlyFromActiveBackend ==
    [][ (Computed(last) /\ last'.path = "hit" /\ last'.key = last.key)
            => ActiveBackends = {last.path} ]_vars

\* C30: once a score call has returned a label, the backend entry of the
\* report's judge metadata is the backend _choose_backend resolves, also
\* when every label so far came from the cache.
C30_ReportNamesResolvedBackend ==
    last.outcome = "return" =>
        \A gp \in GeminiProbes(cfgBackend) : \A qp \in GroqProbes(cfgBackend, gp) :
            JudgeBackendEntry(loggedBackend, cfgBackend, gp, qp)
                = ChooseBackend(cfgBackend, gp, qp)

====
